---- MODULE Spec2Model ----
(***************************************************************************)
(* Multiple knapsack with a weight and a price capacity per bin:           *)
(* knapsack_solver, evaluate_solution and the two front ends (the          *)
(* Streamlit interface and the console "main program") of interface.py.    *)
(*                                                                         *)
(* Numbers.  Weights, prices and capacities are counted in thousandths     *)
(* (1006 stands for 1.006), ratings in whole units, so that sums are exact *)
(* and the two-decimal formatting of the interface version is a real       *)
(* rounding.  A percentage is kept as the exact fraction num/den.          *)
(*                                                                         *)
(* The solver.  model.optimize() is the external MIP solver: from the      *)
(* variables, objective and constraints the code hands it, it returns some *)
(* optimal solution when the model is feasible.  Which of several optimal  *)
(* solutions it returns is not fixed by the code, so it is a choice.       *)
(***************************************************************************)
EXTENDS Integers, Sequences, FiniteSets, TLC

VARIABLES
    version,      \* "interface" (lines 1-178) or "main" (lines 181-317)
    items,        \* the catalog (city_data): sequence of [weight, price, rating]
    num_bins,     \* user input
    max_weight,   \* user input, thousandths
    max_price,    \* user input, thousandths
    status,       \* model.status: "NONE" before optimize(), then "OPTIMAL" / "INFEASIBLE"
    x,            \* the solver's solution: the set of <<i, k>> with x[i,k].X > 0.5
    result,       \* the list knapsack_solver returns
    message,      \* what the front end shows: "none", "results", "no_optimal"
    evaluation,   \* <<>> or <<the dict evaluate_solution returned>>
    export,       \* rows of result_df (interface version only)
    pc            \* position in the front end

vars == <<version, items, num_bins, max_weight, max_price, status, x, result,
          message, evaluation, export, pc>>

----------------------------------------------------------------------------
(* Bounds of the model *)

MaxItems == 2
MaxBins == 2

Weights == {0, 1006}
Prices == {504}
Ratings == {1, 2}
WeightCaps == {0, 1006, 2500}
PriceCaps == {504, 1200}
NegativeCap == 0 - 1000

Item == [weight : Weights, price : Prices, rating : Ratings]
Catalogs == UNION {[1..n -> Item] : n \in 0..MaxItems}

----------------------------------------------------------------------------
(* Arithmetic helpers *)

RECURSIVE SumFn(_, _)
SumFn(f, S) ==
    IF S = {} THEN 0
    ELSE LET e == CHOOSE e \in S : TRUE IN f[e] + SumFn(f, S \ {e})

RECURSIVE SumSeq(_)
SumSeq(s) == IF s = <<>> THEN 0 ELSE Head(s) + SumSeq(Tail(s))

----------------------------------------------------------------------------
(* f"{v:.2f}".rstrip('0').rstrip('.') and float(...) of the interface      *)
(* version, on a value v >= 0 in thousandths.  A string is a sequence of   *)
(* one-character strings.                                                  *)

Digits == <<"0", "1", "2", "3", "4", "5", "6", "7", "8", "9">>
DigitChar(d) == Digits[d + 1]
DigitVal(c) == CHOOSE d \in 0..9 : Digits[d + 1] = c

\* v rounded to hundredths as the formatting of the binary double does it: by
\* the third decimal, and half-to-even on an exact tie.  A third decimal of 5
\* is an exact tie only for a multiple of 0.125; any other x.xx5 is not a
\* binary fraction and its direction depends on the double nearest to it,
\* which is outside this arithmetic: no arm covers it and Weights and Prices
\* hold no such value.
Hundredths(v) ==
    LET q == v \div 10
        r == v % 10
    IN  CASE r < 5 -> q
          [] r > 5 -> q + 1
          [] r = 5 /\ v % 125 = 0 -> IF q % 2 = 0 THEN q ELSE q + 1

RECURSIVE IntDigits(_)
IntDigits(n) ==
    IF n < 10 THEN <<DigitChar(n)>>
    ELSE Append(IntDigits(n \div 10), DigitChar(n % 10))

FormatFixed2(v) ==
    LET h == Hundredths(v)
    IN  IntDigits(h \div 100) \o <<".", DigitChar((h % 100) \div 10), DigitChar(h % 10)>>

RECURSIVE RStrip(_, _)
RStrip(s, c) ==
    IF s # <<>> /\ s[Len(s)] = c THEN RStrip(SubSeq(s, 1, Len(s) - 1), c) ELSE s

RECURSIVE ParseInt(_)
ParseInt(s) ==
    IF s = <<>> THEN 0
    ELSE 10 * ParseInt(SubSeq(s, 1, Len(s) - 1)) + DigitVal(s[Len(s)])

\* float(s) for a string of digits with at most one '.', in thousandths
ParseFloat(s) ==
    LET dots == {j \in 1..Len(s) : s[j] = "."}
        p == IF dots = {} THEN Len(s) + 1 ELSE CHOOSE j \in dots : TRUE
        frac == SubSeq(s, p + 1, Len(s))
        padded == frac \o [j \in 1..(3 - Len(frac)) |-> "0"]
    IN  1000 * ParseInt(SubSeq(s, 1, p - 1)) + ParseInt(SubSeq(padded, 1, 3))

\* the "weight" / "price" field of an item entry of the report
ReportedValue(v) ==
    IF version = "interface"
    THEN ParseFloat(RStrip(RStrip(FormatFixed2(v), "0"), "."))
    ELSE v

----------------------------------------------------------------------------
(* knapsack_solver: the model handed to the solver *)

num_items == Len(items)
ItemIdx == 0..(num_items - 1)
BinIdx == 0..(num_bins - 1)

weight(i) == items[i + 1].weight
price(i) == items[i + 1].price
rating(i) == items[i + 1].rating

\* model.addVars(num_items, num_bins, vtype=GRB.BINARY)
DecisionVars == ItemIdx \X BinIdx

InBin(sol, k) == {i \in ItemIdx : <<i, k>> \in sol}

\* a slip: the rating coefficient left out of the objective
ObjectiveCount(sol) == Cardinality(sol)

\* setObjective(sum(rating[i] * x[i,k]), GRB.MAXIMIZE)
Objective(sol) == SumFn([v \in DecisionVars |-> rating(v[1])], sol)

\* addConstrs(quicksum(x[i,k] for k) <= 1 for i)
ItemConstr(sol) ==
    \A i \in ItemIdx : Cardinality({k \in BinIdx : <<i, k>> \in sol}) <= 1

\* a slip: the weight constraint bounded by the price capacity
WeightConstrByPrice(sol) ==
    \A k \in BinIdx : SumFn([i \in ItemIdx |-> weight(i)], InBin(sol, k)) <= max_price

\* addConstrs(quicksum(weight[i] * x[i,k] for i) <= max_weight for k)
WeightConstr(sol) ==
    \A k \in BinIdx : SumFn([i \in ItemIdx |-> weight(i)], InBin(sol, k)) <= max_weight

\* addConstrs(quicksum(price[i] * x[i,k] for i) <= max_price for k)
PriceConstr(sol) ==
    \A k \in BinIdx : SumFn([i \in ItemIdx |-> price(i)], InBin(sol, k)) <= max_price

FeasibleSet ==
    {sol \in SUBSET DecisionVars : ItemConstr(sol) /\ WeightConstr(sol) /\ PriceConstr(sol)}

\* what model.optimize() may leave in x when the status is OPTIMAL
OptimalSet ==
    LET F == FeasibleSet
        values == {Objective(sol) : sol \in F}
        best == CHOOSE r \in values : \A q \in values : q <= r
    IN  {sol \in F : Objective(sol) = best}

----------------------------------------------------------------------------
(* knapsack_solver: the report built from x *)

\* bin_items = [i for i in range(num_items) if x[i, k].X > 0.5]
BinItems(sol, k) ==
    SelectSeq([j \in 1..num_items |-> j - 1], LAMBDA i : <<i, k>> \in sol)

ItemEntry(i) ==
    [item |-> i,
     weight |-> ReportedValue(weight(i)),
     price |-> ReportedValue(price(i)),
     rating |-> rating(i)]

BinResult(sol, k) ==
    LET bi == BinItems(sol, k)
    IN  [bin |-> k + 1,
         items |-> [j \in 1..Len(bi) |-> ItemEntry(bi[j])],
         total_weight |-> SumSeq([j \in 1..Len(bi) |-> weight(bi[j])]),
         total_price |-> SumSeq([j \in 1..Len(bi) |-> price(bi[j])]),
         total_rating |-> SumSeq([j \in 1..Len(bi) |-> rating(bi[j])])]

\* for k in range(num_bins): if bin_items: ... result.append(bin_result)
BuildResult(sol) ==
    SelectSeq([k1 \in 1..num_bins |-> BinResult(sol, k1 - 1)],
              LAMBDA b : b.items # <<>>)

----------------------------------------------------------------------------
(* evaluate_solution *)

\* a / b * 100 with a numpy scalar a: b = 0 gives nan or +-inf and a
\* RuntimeWarning, not an exception
Percent(a, b) ==
    IF b # 0 THEN [kind |-> "num", num |-> a * 100, den |-> b]
    ELSE [kind |-> IF a = 0 THEN "nan" ELSE IF a > 0 THEN "inf" ELSE "-inf",
          num |-> a * 100, den |-> 0]

\* a slip: bins_used taken as the number of bins asked for
EvaluateSolutionAllBins(res, nb, mw, mp, total_items) ==
    LET total_rating == SumSeq([j \in 1..Len(res) |-> res[j].total_rating])
        total_weight == SumSeq([j \in 1..Len(res) |-> res[j].total_weight])
        total_price == SumSeq([j \in 1..Len(res) |-> res[j].total_price])
        items_used == SumSeq([j \in 1..Len(res) |-> Len(res[j].items)])
        bins_used == nb
    IN  [total_rating |-> total_rating,
         total_weight |-> total_weight,
         total_price |-> total_price,
         items_used |-> items_used,
         bins_used |-> bins_used,
         weight_utilization |-> Percent(total_weight, nb * mw),
         price_utilization |-> Percent(total_price, nb * mp),
         item_utilization |-> Percent(items_used, total_items),
         bin_utilization |-> Percent(bins_used, nb)]

\* a slip: the weight utilization over one bin's capacity
EvaluateSolutionOneBin(res, nb, mw, mp, total_items) ==
    LET total_rating == SumSeq([j \in 1..Len(res) |-> res[j].total_rating])
        total_weight == SumSeq([j \in 1..Len(res) |-> res[j].total_weight])
        total_price == SumSeq([j \in 1..Len(res) |-> res[j].total_price])
        items_used == SumSeq([j \in 1..Len(res) |-> Len(res[j].items)])
        bins_used == Len(res)
    IN  [total_rating |-> total_rating,
         total_weight |-> total_weight,
         total_price |-> total_price,
         items_used |-> items_used,
         bins_used |-> bins_used,
         weight_utilization |-> Percent(total_weight, mw),
         price_utilization |-> Percent(total_price, nb * mp),
         item_utilization |-> Percent(items_used, total_items),
         bin_utilization |-> Percent(bins_used, nb)]

EvaluateSolution(res, nb, mw, mp, total_items) ==
    LET total_rating == SumSeq([j \in 1..Len(res) |-> res[j].total_rating])
        total_weight == SumSeq([j \in 1..Len(res) |-> res[j].total_weight])
        total_price == SumSeq([j \in 1..Len(res) |-> res[j].total_price])
        items_used == SumSeq([j \in 1..Len(res) |-> Len(res[j].items)])
        bins_used == Len(res)
    IN  [total_rating |-> total_rating,
         total_weight |-> total_weight,
         total_price |-> total_price,
         items_used |-> items_used,
         bins_used |-> bins_used,
         weight_utilization |-> Percent(total_weight, nb * mw),
         price_utilization |-> Percent(total_price, nb * mp),
         item_utilization |-> Percent(items_used, total_items),
         bin_utilization |-> Percent(bins_used, nb)]

----------------------------------------------------------------------------
(* result_df: one row per item entry, bins in the order of the report *)

\* the rows of one bin_result, labelled with a bin number
RowsOf(b, label) ==
    [j \in 1..Len(b.items) |->
        [Bin |-> label,
         Item |-> b.items[j].item,
         Weight |-> b.items[j].weight,
         Price |-> b.items[j].price,
         Rating |-> b.items[j].rating]]

\* a slip: rows labelled with the position of the bin in the report
RECURSIVE FlattenByPosition(_)
FlattenByPosition(res) ==
    IF res = <<>> THEN <<>>
    ELSE FlattenByPosition(SubSeq(res, 1, Len(res) - 1)) \o RowsOf(res[Len(res)], Len(res))

RECURSIVE Flatten(_)
Flatten(res) ==
    IF res = <<>> THEN <<>>
    ELSE RowsOf(Head(res), Head(res).bin) \o Flatten(Tail(res))

----------------------------------------------------------------------------
(* The front ends *)

Init ==
    /\ version \in {"interface", "main"}
    /\ items \in Catalogs
    /\ num_bins = 1
    /\ max_weight = 0
    /\ max_price = 0
    /\ status = "NONE"
    /\ x = {}
    /\ result = <<>>
    /\ message = "none"
    /\ evaluation = <<>>
    /\ export = <<>>
    /\ pc = "input"

\* st.number_input(min_value=1) and (min_value=0.0): the widgets bound the inputs
InputInterface ==
    /\ pc = "input"
    /\ version = "interface"
    /\ num_bins' \in 1..MaxBins
    /\ max_weight' \in WeightCaps
    /\ max_price' \in PriceCaps
    /\ pc' = "ready"
    /\ UNCHANGED <<version, items, status, x, result, message, evaluation, export>>

\* int(input(...)), float(input(...)): any number goes through
InputMain ==
    /\ pc = "input"
    /\ version = "main"
    /\ num_bins' \in (0 - 1)..MaxBins
    /\ max_weight' \in WeightCaps \cup {NegativeCap}
    /\ max_price' \in PriceCaps \cup {NegativeCap}
    /\ pc' = "ready"
    /\ UNCHANGED <<version, items, status, x, result, message, evaluation, export>>

\* result = knapsack_solver(city_data, num_bins, max_weight, max_price)
Solve ==
    /\ pc = "ready"
    /\ IF FeasibleSet = {}
       THEN /\ status' = "INFEASIBLE"
            /\ x' = {}
            /\ result' = <<>>
       ELSE \E sol \in OptimalSet :
            /\ status' = "OPTIMAL"
            /\ x' = sol
            /\ result' = BuildResult(sol)
    /\ pc' = "solved"
    /\ UNCHANGED <<version, items, num_bins, max_weight, max_price, message,
                   evaluation, export>>

\* if result: the per-bin listing
ShowResults ==
    /\ pc = "solved"
    /\ result # <<>>
    /\ message' = "results"
    /\ pc' = "shown"
    /\ UNCHANGED <<version, items, num_bins, max_weight, max_price, status, x,
                   result, evaluation, export>>

\* else: "The problem does not have an optimal solution."
ShowNoSolution ==
    /\ pc = "solved"
    /\ result = <<>>
    /\ message' = "no_optimal"
    /\ pc' = "done"
    /\ UNCHANGED <<version, items, num_bins, max_weight, max_price, status, x,
                   result, evaluation, export>>

\* evaluation = evaluate_solution(result, num_bins, max_weight, max_price, len(city_data))
Evaluate ==
    /\ pc = "shown"
    /\ evaluation' = <<EvaluateSolution(result, num_bins, max_weight, max_price, Len(items))>>
    /\ pc' = "evaluated"
    /\ UNCHANGED <<version, items, num_bins, max_weight, max_price, status, x,
                   result, message, export>>

\* result_df = pd.DataFrame([...]) for the download button
Export ==
    /\ pc = "evaluated"
    /\ version = "interface"
    /\ export' = Flatten(result)
    /\ pc' = "done"
    /\ UNCHANGED <<version, items, num_bins, max_weight, max_price, status, x,
                   result, message, evaluation>>

\* the console program ends after printing the evaluation
FinishMain ==
    /\ pc = "evaluated"
    /\ version = "main"
    /\ pc' = "done"
    /\ UNCHANGED <<version, items, num_bins, max_weight, max_price, status, x,
                   result, message, evaluation, export>>

\* the script runs again from the top on the same catalog
Rerun ==
    /\ pc = "done"
    /\ num_bins' = 1
    /\ max_weight' = 0
    /\ max_price' = 0
    /\ status' = "NONE"
    /\ x' = {}
    /\ result' = <<>>
    /\ message' = "none"
    /\ evaluation' = <<>>
    /\ export' = <<>>
    /\ pc' = "input"
    /\ UNCHANGED <<version, items>>

Next ==
    \/ InputInterface
    \/ InputMain
    \/ Solve
    \/ ShowResults
    \/ ShowNoSolution
    \/ Evaluate
    \/ Export
    \/ FinishMain
    \/ Rerun

Spec == Init /\ [][Next]_vars

----------------------------------------------------------------------------
(* Vocabulary of the properties *)

ValidParams == num_bins >= 1 /\ max_weight >= 0 /\ max_price >= 0
BadParams == num_bins <= 0 \/ max_weight < 0 \/ max_price < 0

Assigned(sol) == {i \in ItemIdx : \E k \in BinIdx : <<i, k>> \in sol}
UsedBins(sol) == {k \in BinIdx : InBin(sol, k) # {}}

WeightFn == [i \in ItemIdx |-> weight(i)]
PriceFn == [i \in ItemIdx |-> price(i)]
RatingFn == [i \in ItemIdx |-> rating(i)]

ResultRating == SumSeq([b \in 1..Len(result) |-> result[b].total_rating])

\* the item identifiers listed in entry b of the report
ListedItems(b) == {result[b].items[j].item : j \in 1..Len(result[b].items)}

\* every way of sending each item to a bin or to "unassigned" (-1)
Unassigned == 0 - 1
Assignments == [ItemIdx -> BinIdx \cup {Unassigned}]
ItemsOf(a, k) == {i \in ItemIdx : a[i] = k}
Respects(a) ==
    \A k \in BinIdx : /\ SumFn(WeightFn, ItemsOf(a, k)) <= max_weight
                      /\ SumFn(PriceFn, ItemsOf(a, k)) <= max_price
AssignmentRating(a) == SumFn(RatingFn, ItemIdx \ ItemsOf(a, Unassigned))
BestRating ==
    LET R == {AssignmentRating(a) : a \in {b \in Assignments : Respects(b)}}
    IN  CHOOSE r \in R : \A q \in R : q <= r

\* branch order: items in catalog order, bin 0 first, "unassigned" last
BranchRank(a, i) == IF a[i] = Unassigned THEN num_bins ELSE a[i]
BranchBefore(a, b) ==
    \E i \in ItemIdx : /\ BranchRank(a, i) < BranchRank(b, i)
                       /\ \A h \in 0..(i - 1) : a[h] = b[h]
OptimalAssignments ==
    {a \in Assignments : Respects(a) /\ AssignmentRating(a) = BestRating}
FirstOptimal ==
    CHOOSE a \in OptimalAssignments :
        \A b \in OptimalAssignments : b = a \/ BranchBefore(a, b)
SolutionOf(a) == {v \in DecisionVars : a[v[1]] = v[2]}

NoItemFits == \A i \in ItemIdx : weight(i) > max_weight \/ price(i) > max_price

InPercentRange(m) == m.kind = "num" /\ 0 <= m.num /\ m.num <= 100 * m.den

----------------------------------------------------------------------------
(* C1.  With num_bins >= 1 and capacities >= 0, the report knapsack_solver  *)
(* returns is feasible: in every bin entry the listed items' weights sum   *)
(* to at most max_weight and their prices to at most max_price, and no     *)
(* item is listed in two entries.                                          *)
C1_Feasible ==
    (status # "NONE" /\ ValidParams) =>
        /\ \A b \in 1..Len(result) :
              /\ SumFn(WeightFn, ListedItems(b)) <= max_weight
              /\ SumFn(PriceFn, ListedItems(b)) <= max_price
              /\ Cardinality(ListedItems(b)) = Len(result[b].items)
        /\ \A b, c \in 1..Len(result) :
              b # c => ListedItems(b) \cap ListedItems(c) = {}

\* a bin that holds two items, some of them heavy
C1_Witness ==
    /\ status = "OPTIMAL" /\ ValidParams
    /\ \E b \in 1..Len(result) :
          Len(result[b].items) = 2 /\ result[b].total_weight > 0

(* C2.  With valid parameters the total rating of the returned report is   *)
(* the largest total rating of any assignment of the items to a bin or to  *)
(* "unassigned" that respects both capacities of every bin.                *)
C2_Optimal ==
    (status # "NONE" /\ ValidParams) => ResultRating = BestRating

\* the capacities bind: something is placed and something is left out
C2_Witness ==
    /\ status = "OPTIMAL" /\ ValidParams
    /\ 0 < ResultRating
    /\ ResultRating < SumFn(RatingFn, ItemIdx)

(* C3.  With num_bins <= 0 or a negative capacity the call fails before    *)
(* the model is built: the solver is never run, the call never returns a   *)
(* list (the front end stays at the call) and nothing is shown.            *)
C3_InvalidParameter ==
    (pc # "input" /\ BadParams) =>
        status = "NONE" /\ pc = "ready" /\ message = "none"

(* C4.  With valid parameters and a catalog of which no item fits, the     *)
(* outcome shown is a valid result with zero bins used and total rating 0, *)
(* not the "no optimal solution" outcome.                                  *)
C4_EmptyIsValid ==
    (pc = "done" /\ ValidParams /\ Len(items) >= 1 /\ NoItemFits) =>
        /\ message = "results"
        /\ Len(evaluation) = 1
        /\ evaluation[1].bins_used = 0
        /\ evaluation[1].total_rating = 0

(* C5.  In an evaluation, a metric whose denominator is zero is reported   *)
(* as DivisionByZero and every other metric as a number: never nan or      *)
(* infinite.                                                               *)
C5_DivisionGuarded ==
    Len(evaluation) = 1 =>
        \A m \in {evaluation[1].weight_utilization, evaluation[1].price_utilization,
                  evaluation[1].item_utilization, evaluation[1].bin_utilization} :
            m.kind = IF m.den = 0 THEN "DivisionByZero" ELSE "num"

(* C6.  With valid parameters the returned report is the one of the first  *)
(* optimal assignment in branch order, hence a function of the inputs.     *)
C6_FirstInBranchOrder ==
    (status = "OPTIMAL" /\ ValidParams) => result = BuildResult(SolutionOf(FirstOptimal))

(* C7.  The evaluation reports the number of assigned items, the number of *)
(* bins holding an item, and the rating, weight and price summed over      *)
(* exactly the assigned items; the report evaluated is still the one the   *)
(* solver returned.                                                        *)
C7_Totals ==
    Len(evaluation) = 1 =>
        /\ evaluation[1].items_used = Cardinality(Assigned(x))
        /\ evaluation[1].bins_used = Cardinality(UsedBins(x))
        /\ evaluation[1].total_rating = SumFn(RatingFn, Assigned(x))
        /\ evaluation[1].total_weight = SumFn(WeightFn, Assigned(x))
        /\ evaluation[1].total_price = SumFn(PriceFn, Assigned(x))
        /\ result = BuildResult(x)

\* an evaluation with an empty bin and an item left out
C7_Witness ==
    /\ Len(evaluation) = 1
    /\ evaluation[1].bins_used < num_bins
    /\ 0 < evaluation[1].items_used
    /\ evaluation[1].items_used < Len(items)

\* the rows of the export, once built
C8_Rows ==
    (pc = "done" /\ version = "interface" /\ message = "results") =>
        /\ \A v \in x :
              \E j \in 1..Len(export) :
                  /\ export[j].Item = v[1]
                  /\ export[j].Bin = v[2] + 1
                  /\ export[j].Rating = rating(v[1])
                  /\ export[j].Weight = ReportedValue(weight(v[1]))
                  /\ export[j].Price = ReportedValue(price(v[1]))
                  /\ \A h \in 1..Len(export) : export[h].Item = v[1] => h = j
        /\ \A j \in 1..Len(export) : <<export[j].Item, export[j].Bin - 1>> \in x
        /\ \A j, h \in 1..Len(export) : j < h => export[j].Bin <= export[h].Bin
        /\ Len(export) = evaluation[1].items_used

(* C8.  The export holds exactly one row per assigned item and none for an *)
(* unassigned one, each with the 1-based number of the item's bin, in      *)
(* increasing bin order, as many rows as items used; building it leaves    *)
(* the solver's status, solution and report as they were.                  *)
C8_Export ==
    /\ []C8_Rows
    /\ [][pc = "evaluated" => UNCHANGED <<status, x, result>>]_vars

\* an export whose only bin is not the first, with an item left out
C8_Witness ==
    /\ pc = "done" /\ version = "interface"
    /\ Len(export) >= 1
    /\ Len(export) < Len(items)
    /\ export[1].Bin = 2

(* C9.  In every bin entry total_weight is the sum of the listed items'    *)
(* weight fields and total_price the sum of their price fields.            *)
C9_TotalsMatchFields ==
    \A b \in 1..Len(result) :
        /\ result[b].total_weight
              = SumSeq([j \in 1..Len(result[b].items) |-> result[b].items[j].weight])
        /\ result[b].total_price
              = SumSeq([j \in 1..Len(result[b].items) |-> result[b].items[j].price])

(* C10.  With num_bins >= 1, positive capacities and a non-empty catalog,  *)
(* the four utilization percentages of an evaluation lie in [0, 100].      *)
C10_Percentages ==
    (Len(evaluation) = 1 /\ num_bins >= 1 /\ max_weight > 0 /\ max_price > 0
        /\ Len(items) >= 1) =>
        /\ InPercentRange(evaluation[1].weight_utilization)
        /\ InPercentRange(evaluation[1].price_utilization)
        /\ InPercentRange(evaluation[1].item_utilization)
        /\ InPercentRange(evaluation[1].bin_utilization)

\* both bins full to the weight capacity: weight utilization is 100
C10_Witness ==
    /\ Len(evaluation) = 1 /\ max_weight > 0 /\ max_price > 0
    /\ evaluation[1].bins_used = 2
    /\ evaluation[1].weight_utilization.num = 100 * evaluation[1].weight_utilization.den

====
